---- MODULE Spec2Model ----
(***************************************************************************)
(* Model of the foreman_ldap Ansible module: main() builds the module      *)
(* parameters from the caller's arguments, ensure() looks the LDAP auth    *)
(* source up by name, resolves organization and location names, and        *)
(* issues at most one of create / update / delete against the Foreman API. *)
(*                                                                         *)
(* Python values are written as strings ("None", "True", "False", "389",   *)
(* "h1"), so that the truth test of `if module.params[key]` and the        *)
(* comparison `data.get(key) != ldap.get(key)` are computed on the values  *)
(* themselves.  A dict is a function whose DOMAIN is its key set.          *)
(***************************************************************************)
EXTENDS Integers, Sequences, FiniteSets, TLC

\* Longest organizations list and longest locations list a caller supplies.
MaxOrgNames == 2
MaxLocNames == 1

None == "None"

\* Python truth value of a scalar: None, False, 0 and '' are false.
Truthy(v) == v \notin {"None", "False", "0", ""}

\* dict.get(key): the value, or None when the key is absent.
Get(d, k) == IF k \in DOMAIN d THEN d[k] ELSE None

Range(s) == {s[i] : i \in DOMAIN s}

----------------------------------------------------------------------------
(* ensure(): the key lists                                                  *)

cmp_keys_with_password ==
  <<"host", "port", "base_dn", "account", "attr_login", "attr_firstname",
    "attr_lastname", "attr_mail", "attr_photo", "onthefly_register",
    "usergroup_sync", "ldap_filter", "tls", "groups_base", "server_type",
    "account_password">>

cmp_keys ==
  <<"host", "port", "base_dn", "account", "attr_login", "attr_firstname",
    "attr_lastname", "attr_mail", "attr_photo", "onthefly_register",
    "usergroup_sync", "ldap_filter", "tls", "groups_base", "server_type">>

keys == cmp_keys \o <<"account_password">>

\* The fields a remote LDAP auth source record carries (no password: it is
\* write-only and never read back).
RecordKeys ==
  {"host", "port", "base_dn", "account", "attr_login", "attr_firstname",
   "attr_lastname", "attr_mail", "attr_photo", "onthefly_register",
   "usergroup_sync", "ldap_filter", "tls", "groups_base", "server_type"}

----------------------------------------------------------------------------
(* The remote system: organizations, locations and LDAP auth sources        *)

\* search_organization / search_location: exact-match name -> id.
Organizations == [n \in {"Org1", "Org2"} |-> IF n = "Org1" THEN 1 ELSE 2]
Locations == [n \in {"Loc1"} |-> 1]

OrgNames == {"Org1", "Org2", "NoOrg"}
LocNames == {"Loc1", "NoLoc"}

\* Message carried by a ForemanError (e.message).
ErrMsg == "remote error"

TargetName == "Test LDAP"
OtherName == "Other LDAP"

\* A record the invocations never name; it must stay as it is.
OtherRecord ==
  [id |-> 1, name |-> OtherName,
   attrs |-> [k \in RecordKeys |->
                IF k = "host" THEN "h1" ELSE IF k = "port" THEN "389"
                ELSE IF k = "tls" THEN "True" ELSE None],
   organization_ids |-> <<1>>, location_ids |-> <<1>>]

\* theforeman.search_auth_source_ldap(data={'name': name}): the record with
\* that name, or none.  The result is a set with at most one element.
search_auth_source_ldap(remote, name) ==
  LET m == {r \in remote : r.name = name}
  IN  IF m = {} THEN {} ELSE {CHOOSE r \in m : TRUE}

\* theforeman.get_auth_source_ldap(id=...)
get_auth_source_ldap(remote, id) ==
  LET m == {r \in remote : r.id = id}
  IN  IF m = {} THEN {} ELSE {CHOOSE r \in m : TRUE}

\* Identifier the remote system gives a new record: the least unused one.
FreshId(remote) ==
  CHOOSE i \in 1..(Cardinality(remote) + 1) :
    /\ \A r \in remote : r.id # i
    /\ \A j \in 1..(i - 1) : \E r \in remote : r.id = j

\* theforeman.create_auth_source_ldap(data=data): the record as sent, the
\* password dropped, unsent fields empty.
CreatedRecord(remote, data) ==
  [id |-> FreshId(remote), name |-> data.attrs["name"],
   attrs |-> [k \in RecordKeys |-> Get(data.attrs, k)],
   organization_ids |-> IF "organization_ids" \in DOMAIN data.ids
                        THEN data.ids["organization_ids"] ELSE <<>>,
   location_ids |-> IF "location_ids" \in DOMAIN data.ids
                    THEN data.ids["location_ids"] ELSE <<>>]

create_auth_source_ldap(remote, data) == remote \cup {CreatedRecord(remote, data)}

\* theforeman.update_auth_source_ldap(id=..., data=data): the fields sent
\* replace the record's, the others stay.
UpdatedRecord(r, data) ==
  [id |-> r.id, name |-> Get(data.attrs, "name"),
   attrs |-> [k \in RecordKeys |->
                IF k \in DOMAIN data.attrs THEN data.attrs[k] ELSE r.attrs[k]],
   organization_ids |-> IF "organization_ids" \in DOMAIN data.ids
                        THEN data.ids["organization_ids"] ELSE r.organization_ids,
   location_ids |-> IF "location_ids" \in DOMAIN data.ids
                    THEN data.ids["location_ids"] ELSE r.location_ids]

update_auth_source_ldap(remote, id, data) ==
  {IF r.id = id THEN UpdatedRecord(r, data) ELSE r : r \in remote}

\* theforeman.delete_auth_source_ldap(id=...)
delete_auth_source_ldap(remote, id) == {r \in remote : r.id # id}

----------------------------------------------------------------------------
(* Remote calls, as the invocation issues them                              *)

\* One remote call: the operation, the name looked up, the identifier and
\* the data sent (a set holding the dict, empty when none is sent), and how
\* it ended: "ok", "none" (a lookup that found nothing) or "error".
Call(op, key, id, data, res) ==
  [op |-> op, key |-> key, id |-> id, data |-> data, res |-> res]

MutatingOps ==
  {"create_auth_source_ldap", "update_auth_source_ldap", "delete_auth_source_ldap"}

\* The remote call that raises ForemanError in an invocation, if any.
Fault(op, key) == [op |-> op, key |-> key]
NoFault == Fault("", "")
Faults ==
  {NoFault}
    \cup {Fault(o, "") : o \in MutatingOps \cup {"search_auth_source_ldap",
                                                "get_auth_source_ldap"}}
    \cup {Fault("search_organization", n) : n \in OrgNames}
    \cup {Fault("search_location", n) : n \in LocNames}

\* A message handed to fail_json, or the text of an uncaught exception: the
\* format string and the values formatted into it.
Msg(fmt, args) == [fmt |-> fmt, args |-> args]
NoMsg == Msg("", <<>>)

----------------------------------------------------------------------------
(* module_utils/foreman_utils.py: name -> identifier resolution             *)

\* What a resolver hands back: the calls it issued, how it ended ("ok",
\* "failed" through module.fail_json, "crashed" through an uncaught
\* exception), the message, and the identifier list.
Resolved(calls, status, msg, result) ==
  [calls |-> calls, status |-> status, msg |-> msg, result |-> result]

\* The loop of get_organization_ids from index i on.  A name the lookup does
\* not find ends it through fail_json.  The ForemanError handler formats
\* `locations[i]`, a name that function does not have: NameError.
RECURSIVE organization_loop(_, _, _, _, _)
organization_loop(organizations, i, result, calls, fault) ==
  IF i > Len(organizations) THEN Resolved(calls, "ok", NoMsg, result)
  ELSE LET n == organizations[i] IN
    IF fault = Fault("search_organization", n)
    THEN Resolved(Append(calls, Call("search_organization", n, 0, {}, "error")),
                  "crashed",
                  Msg("NameError: name 'locations' is not defined", <<>>), <<>>)
    ELSE IF n \notin DOMAIN Organizations
    THEN Resolved(Append(calls, Call("search_organization", n, 0, {}, "none")),
                  "failed", Msg("Could not find Organization {0}", <<n>>), <<>>)
    ELSE organization_loop(organizations, i + 1, Append(result, Organizations[n]),
                           Append(calls, Call("search_organization", n, 0, {}, "ok")),
                           fault)

\* The same loop with a name that is not found skipped instead of fatal.
RECURSIVE organization_loop_soft(_, _, _, _, _)
organization_loop_soft(organizations, i, result, calls, fault) ==
  IF i > Len(organizations) THEN Resolved(calls, "ok", NoMsg, result)
  ELSE LET n == organizations[i] IN
    IF fault = Fault("search_organization", n)
    THEN Resolved(Append(calls, Call("search_organization", n, 0, {}, "error")),
                  "crashed",
                  Msg("NameError: name 'locations' is not defined", <<>>), <<>>)
    ELSE IF n \notin DOMAIN Organizations
    THEN organization_loop_soft(organizations, i + 1, result,
                           Append(calls, Call("search_organization", n, 0, {}, "none")),
                           fault)
    ELSE organization_loop_soft(organizations, i + 1,
                           Append(result, Organizations[n]),
                           Append(calls, Call("search_organization", n, 0, {}, "ok")),
                           fault)

get_organization_ids_soft(organizations, fault) ==
  organization_loop_soft(organizations, 1, <<>>, <<>>, fault)

get_organization_ids(organizations, fault) ==
  organization_loop(organizations, 1, <<>>, <<>>, fault)

RECURSIVE location_loop(_, _, _, _, _)
location_loop(locations, i, result, calls, fault) ==
  IF i > Len(locations) THEN Resolved(calls, "ok", NoMsg, result)
  ELSE LET n == locations[i] IN
    IF fault = Fault("search_location", n)
    THEN Resolved(Append(calls, Call("search_location", n, 0, {}, "error")),
                  "failed",
                  Msg("Search for Location '{loc}' throws an Error: {err}",
                      <<n, ErrMsg>>), <<>>)
    ELSE IF n \notin DOMAIN Locations
    THEN Resolved(Append(calls, Call("search_location", n, 0, {}, "none")),
                  "failed", Msg("Could not find Location {0}", <<n>>), <<>>)
    ELSE location_loop(locations, i + 1, Append(result, Locations[n]),
                       Append(calls, Call("search_location", n, 0, {}, "ok")),
                       fault)

get_location_ids(locations, fault) ==
  location_loop(locations, 1, <<>>, <<>>, fault)

----------------------------------------------------------------------------
(* foreman_ldap.py: the comparator                                          *)

\* organizations_equal / locations_equal: the identifier lists compared as
\* sets when the caller's data carries the key, equal otherwise.
organizations_equal(data, ldap) ==
  "organization_ids" \in DOMAIN data.ids
    => Range(data.ids["organization_ids"]) = Range(ldap.organization_ids)

locations_equal(data, ldap) ==
  "location_ids" \in DOMAIN data.ids
    => Range(data.ids["location_ids"]) = Range(ldap.location_ids)

\* ldaps_equal without the `key in data` test: every comparison key is
\* compared, a key the caller left out as None.
ldaps_equal_all_keys(data, ldap, ckeys) ==
  /\ \A i \in DOMAIN ckeys : Get(data.attrs, ckeys[i]) = Get(ldap.attrs, ckeys[i])
  /\ organizations_equal(data, ldap)
  /\ locations_equal(data, ldap)

ldaps_equal(data, ldap, ckeys) ==
  /\ \A i \in DOMAIN ckeys :
       ~ (ckeys[i] \in DOMAIN data.attrs
            /\ Get(data.attrs, ckeys[i]) # Get(ldap.attrs, ckeys[i]))
  /\ organizations_equal(data, ldap)
  /\ locations_equal(data, ldap)

----------------------------------------------------------------------------
(* foreman_ldap.py: main() and ensure()                                     *)

\* A list parameter: not given (Python None) or given with its names.
NotGiven == [given |-> FALSE, names |-> <<>>]
Given(names) == [given |-> TRUE, names |-> names]

\* main(): AnsibleModule(argument_spec=...) turns the caller's arguments into
\* module.params: every declared parameter is present, with its default
\* (state 'present', port 389, tls False) or None when the caller left it out.
Default(k) ==
  IF k = "state" THEN "present"
  ELSE IF k = "port" THEN "389"
  ELSE IF k = "tls" THEN "False"
  ELSE None

ParamKeys == {"name", "state"} \cup Range(keys)

module_params(args) ==
  [attrs |-> [k \in ParamKeys |->
                IF k \in DOMAIN args.attrs THEN args.attrs[k] ELSE Default(k)],
   organizations |-> args.organizations,
   locations |-> args.locations]

\* The dict `data` of ensure: scalar entries and identifier-list entries.
Data(attrs, ids) == [attrs |-> attrs, ids |-> ids]
NoIds == [k \in {} |-> <<>>]

\* ensure(): data = {'name': name}, then a key is copied for every parameter
\* whose value is true in Python's sense.
collect_keys(params) ==
  [k \in {"name"} \cup {k \in Range(keys) : Truthy(params.attrs[k])} |->
     params.attrs[k]]

\* The value ensure returns: False, True, or on the update path the tuple
\* (True, ldap); rec holds the tuple's record.
Ret(tuple, flag, rec) == [tuple |-> tuple, flag |-> flag, rec |-> rec]
NoRet == Ret(FALSE, FALSE, {})

\* How a stretch of ensure ends: calls issued, status ("ok" when it returned,
\* "failed" through fail_json, "crashed" through an uncaught exception),
\* message, returned value, and the remote records afterwards.
Outcome(calls, status, msg, ret, remote) ==
  [calls |-> calls, status |-> status, msg |-> msg, ret |-> ret, remote |-> remote]

\* module.fail_json('...') with the message as a positional argument: a
\* failure descriptor where fail_json accepts msg positionally, TypeError
\* where it takes keyword arguments only.
fail_json_positional(positional, fmt, args) ==
  IF positional THEN [status |-> "failed", msg |-> Msg(fmt, args)]
  ELSE [status |-> "crashed",
        msg |-> Msg("TypeError: fail_json() takes 1 positional argument but 2 were given",
                    <<>>)]

create_branch(data, remote, fault) ==
  IF fault = Fault("create_auth_source_ldap", "")
  THEN Outcome(<<Call("create_auth_source_ldap", "", 0, {data}, "error")>>, "failed",
               Msg("Could not create ldap: {0}", <<ErrMsg>>), NoRet, remote)
  ELSE Outcome(<<Call("create_auth_source_ldap", "", 0, {data}, "ok")>>, "ok",
               NoMsg, Ret(FALSE, TRUE, {}), create_auth_source_ldap(remote, data))

delete_branch(rec, remote, fault, positional) ==
  IF fault = Fault("delete_auth_source_ldap", "")
  THEN LET f == fail_json_positional(positional, "Could not delete ldap: {0}", <<ErrMsg>>)
       IN  Outcome(<<Call("delete_auth_source_ldap", "", rec.id, {}, "error")>>,
                   f.status, f.msg, NoRet, remote)
  ELSE Outcome(<<Call("delete_auth_source_ldap", "", rec.id, {}, "ok")>>, "ok",
               NoMsg, Ret(FALSE, TRUE, {}), delete_auth_source_ldap(remote, rec.id))

update_branch(rec, data, remote, fault) ==
  IF fault = Fault("update_auth_source_ldap", "")
  THEN Outcome(<<Call("update_auth_source_ldap", "", rec.id, {data}, "error")>>, "failed",
               Msg("Could not update hostgroup: {0}", <<ErrMsg>>), NoRet, remote)
  ELSE Outcome(<<Call("update_auth_source_ldap", "", rec.id, {data}, "ok")>>, "ok",
               NoMsg, Ret(TRUE, TRUE, {UpdatedRecord(rec, data)}),
               update_auth_source_ldap(remote, rec.id, data))

no_change(remote) == Outcome(<<>>, "ok", NoMsg, Ret(FALSE, FALSE, {}), remote)

\* The branch with the test of `ldap` dropped from the create condition.
apply_create_always(ldap, state, data, remote, fault, positional) ==
  IF state = "present" THEN create_branch(data, remote, fault)
  ELSE IF ldap # {} THEN
    LET rec == CHOOSE r \in ldap : TRUE IN
    delete_branch(rec, remote, fault, positional)
  ELSE no_change(remote)

\* The branch with the return after a successful delete dropped: the code
\* goes on to the comparison and the update.
apply_delete_falls_through(ldap, state, data, remote, fault, positional) ==
  IF ldap = {} /\ state = "present" THEN create_branch(data, remote, fault)
  ELSE IF ldap # {} THEN
    LET rec == CHOOSE r \in ldap : TRUE
        d == IF state = "absent" THEN delete_branch(rec, remote, fault, positional)
             ELSE no_change(remote)
    IN  IF d.status # "ok" THEN d
        ELSE IF ~ ldaps_equal(data, rec, cmp_keys)
        THEN LET u == update_branch(rec, data, d.remote, fault)
             IN  Outcome(d.calls \o u.calls, u.status, u.msg, u.ret, u.remote)
        ELSE Outcome(d.calls, "ok", NoMsg, Ret(FALSE, FALSE, {}), d.remote)
  ELSE no_change(remote)

\* The branch with the update issued whether or not the comparator finds a
\* difference.
apply_update_always(ldap, state, data, remote, fault, positional) ==
  IF ldap = {} /\ state = "present" THEN create_branch(data, remote, fault)
  ELSE IF ldap # {} THEN
    LET rec == CHOOSE r \in ldap : TRUE IN
    IF state = "absent" THEN delete_branch(rec, remote, fault, positional)
    ELSE update_branch(rec, data, remote, fault)
  ELSE no_change(remote)

\* ensure(), from `if not ldap and state == 'present'` to `return False`.
apply(ldap, state, data, remote, fault, positional) ==
  IF ldap = {} /\ state = "present" THEN create_branch(data, remote, fault)
  ELSE IF ldap # {} THEN
    LET rec == CHOOSE r \in ldap : TRUE IN
    IF state = "absent" THEN delete_branch(rec, remote, fault, positional)
    ELSE IF ~ ldaps_equal(data, rec, cmp_keys) THEN update_branch(rec, data, remote, fault)
    ELSE no_change(remote)
  ELSE no_change(remote)

\* ensure(): the lookup of the current record, search then get by identifier.
\* `ldap` is bound by the search and rebound by the get: when the get raises,
\* it still holds what the search returned.
Fetched(calls, status, msg, ldap) ==
  [calls |-> calls, status |-> status, msg |-> msg, ldap |-> ldap]

fetch(name, remote, fault) ==
  IF fault = Fault("search_auth_source_ldap", "")
  THEN Fetched(<<Call("search_auth_source_ldap", name, 0, {}, "error")>>, "failed",
               Msg("Could not get ldap: {0}", <<ErrMsg>>), {})
  ELSE LET found == search_auth_source_ldap(remote, name) IN
    IF found = {}
    THEN Fetched(<<Call("search_auth_source_ldap", name, 0, {}, "none")>>, "ok", NoMsg, {})
    ELSE LET id == (CHOOSE r \in found : TRUE).id
             c1 == Call("search_auth_source_ldap", name, 0, {}, "ok")
         IN  IF fault = Fault("get_auth_source_ldap", "")
             THEN Fetched(<<c1, Call("get_auth_source_ldap", "", id, {}, "error")>>,
                          "failed", Msg("Could not get ldap: {0}", <<ErrMsg>>), found)
             ELSE Fetched(<<c1, Call("get_auth_source_ldap", "", id, {}, "ok")>>,
                          "ok", NoMsg, get_auth_source_ldap(remote, id))

\* The test written as `if organizations:`, which an empty list fails.
is_nonempty(list) == list.given /\ list.names # <<>>

\* `if organizations is not None` / `if locations is not None`
is_not_none(list) == list.given

\* What ensure hands to main, with its locals `ldap` and `data` as they
\* stood when it ended.  A successful update rebinds `ldap` to the record
\* update_auth_source_ldap returned (the record of the returned tuple).
Ensured(calls, status, msg, ret, remote, ldap, data) ==
  [calls |-> calls, status |-> status, msg |-> msg, ret |-> ret,
   remote |-> remote, ldap |-> ldap, data |-> data]

ensure(params, remote, fault, positional) ==
  LET name == params.attrs["name"]
      state == params.attrs["state"]
      organizations == params.organizations
      locations == params.locations
      f == fetch(name, remote, fault)
      attrs == collect_keys(params)
      o == IF is_not_none(organizations)
           THEN get_organization_ids(organizations.names, fault)
           ELSE Resolved(<<>>, "ok", NoMsg, <<>>)
      ids1 == IF is_not_none(organizations)
              THEN [k \in {"organization_ids"} |-> o.result] ELSE NoIds
      l == IF is_not_none(locations)
           THEN get_location_ids(locations.names, fault)
           ELSE Resolved(<<>>, "ok", NoMsg, <<>>)
      ids2 == IF is_not_none(locations)
              THEN ids1 @@ [k \in {"location_ids"} |-> l.result] ELSE ids1
      data == Data(attrs, ids2)
      a == apply(f.ldap, state, data, remote, fault, positional)
  IN  IF f.status # "ok"
      THEN Ensured(f.calls, f.status, f.msg, NoRet, remote, f.ldap,
                   Data([k \in {"name"} |-> name], NoIds))
      ELSE IF o.status # "ok"
      THEN Ensured(f.calls \o o.calls, o.status, o.msg, NoRet, remote, f.ldap,
                   Data(attrs, NoIds))
      ELSE IF l.status # "ok"
      THEN Ensured(f.calls \o o.calls \o l.calls, l.status, l.msg, NoRet, remote,
                   f.ldap, Data(attrs, ids1))
      ELSE Ensured(f.calls \o o.calls \o l.calls \o a.calls, a.status, a.msg, a.ret,
                   a.remote, IF a.ret.tuple THEN a.ret.rec ELSE f.ldap, data)

\* main(): changed = ensure(module); module.exit_json(changed=changed,
\* name=module.params['name']).  The descriptor's `changed` is whatever
\* ensure returned.
Descriptor(status, changed, name, msg) ==
  [status |-> status, changed |-> changed, name |-> name, msg |-> msg]

main(args, remote, fault, positional) ==
  LET params == module_params(args)
      e == ensure(params, remote, fault, positional)
  IN  [calls |-> e.calls, remote |-> e.remote, ldap |-> e.ldap, data |-> e.data,
       result |-> IF e.status = "ok"
                  THEN Descriptor("ok", e.ret, params.attrs["name"], NoMsg)
                  ELSE Descriptor(e.status, NoRet, "", e.msg)]

----------------------------------------------------------------------------
(* The state machine: sequential invocations against one remote system      *)

VARIABLES
  remote,   \* the LDAP auth source records the remote system holds
  before,   \* the records it held when the last invocation started
  args,     \* the arguments the caller gave the last invocation
  ldap,     \* ensure's local `ldap` as the last invocation left it (empty: None)
  data,     \* ensure's local `data` in the last invocation
  calls,    \* the remote calls the last invocation issued, in order
  result,   \* the descriptor the last invocation ended with
  repeat    \* the last invocation repeated the arguments of a successful one

vars == <<remote, before, args, ldap, data, calls, result, repeat>>

\* Sequences of distinct elements of S, of length at most n.
DistinctSeqs(S, n) ==
  UNION {{q \in [1..k -> S] : \A i, j \in 1..k : i # j => q[i] # q[j]} : k \in 0..n}

ListArgs(S, n) == {NotGiven} \cup {Given(q) : q \in DistinctSeqs(S, n)}

Optional(k, values) == {[x \in {} |-> ""]} \cup {[x \in {k} |-> v] : v \in values}

\* The argument sets a caller passes: name and host are required.
Args ==
  {[attrs |-> [k \in {"name", "host", "state"} |->
                 IF k = "name" THEN TargetName ELSE IF k = "host" THEN "h1" ELSE st]
               @@ tls @@ pw,
    organizations |-> orgs, locations |-> locs] :
     st \in {"present", "absent"},
     tls \in Optional("tls", {"False", "True"}),
     pw \in Optional("account_password", {"pw1"}),
     orgs \in ListArgs(OrgNames, MaxOrgNames),
     locs \in ListArgs(LocNames, MaxLocNames)}

\* Records named TargetName the remote system may hold at the start.
InitRecords ==
  {[id |-> 2, name |-> TargetName,
    attrs |-> [k \in RecordKeys |->
                 IF k = "host" THEN h ELSE IF k = "port" THEN "389"
                 ELSE IF k = "tls" THEN t ELSE None],
    organization_ids |-> oi, location_ids |-> li] :
     h \in {"h1", "h2"}, t \in {"False", "True"},
     oi \in DistinctSeqs(Range(Organizations), MaxOrgNames),
     li \in DistinctSeqs(Range(Locations), MaxLocNames)}

\* No invocation on record: the locals and the descriptor are blank.
NoArgs ==
  [attrs |-> [k \in {"name", "host", "state"} |->
                IF k = "name" THEN TargetName
                ELSE IF k = "host" THEN "h1" ELSE "present"],
   organizations |-> NotGiven, locations |-> NotGiven]

NoData == Data([k \in {"name"} |-> TargetName], NoIds)

Init ==
  /\ remote \in {{OtherRecord}} \cup {{OtherRecord, r} : r \in InitRecords}
  /\ before = remote
  /\ args = NoArgs
  /\ ldap = {}
  /\ data = NoData
  /\ calls = <<>>
  /\ result = Descriptor("none", NoRet, "", NoMsg)
  /\ repeat = FALSE

\* One run of main() with arguments a against the remote system as it
\* stands, the remote call `fault` (if issued) raising ForemanError.
Run(a, fault, again) ==
  \E positional \in IF fault.op = "delete_auth_source_ldap" THEN BOOLEAN ELSE {TRUE} :
    \E m \in {main(a, remote, fault, positional)} :
      /\ remote' = m.remote
      /\ before' = remote
      /\ args' = a
      /\ ldap' = m.ldap
      /\ data' = m.data
      /\ calls' = m.calls
      /\ result' = m.result
      /\ repeat' = again

\* The module is run with some arguments.
Invoke ==
  /\ result.status = "none"
  /\ \E a \in Args, fault \in Faults : Run(a, fault, FALSE)

\* After a successful run the module is run again with the same arguments,
\* nothing else having touched the remote system in between.
Reapply ==
  /\ result.status = "ok"
  /\ \E fault \in Faults : Run(args, fault, TRUE)

\* The process of the last run is gone: its locals and its descriptor are
\* no longer on record, the remote system stays as the run left it.
Forget ==
  /\ result.status # "none"
  /\ before' = remote
  /\ args' = NoArgs
  /\ ldap' = {}
  /\ data' = NoData
  /\ calls' = <<>>
  /\ result' = Descriptor("none", NoRet, "", NoMsg)
  /\ repeat' = FALSE
  /\ UNCHANGED remote

Next == Invoke \/ Reapply \/ Forget

Spec == Init /\ [][Next]_vars

----------------------------------------------------------------------------
(* What the claims speak of                                                 *)

Done == result.status # "none"

\* The mutating calls of the last invocation, in order.
IsMutating(c) == c.op \in MutatingOps
Mutations == SelectSeq(calls, IsMutating)

\* A lookup ended the invocation before ensure reached its branch: a remote
\* error in a non-mutating call, or an organization / location not found.
LookupFailed ==
  \E i \in DOMAIN calls :
    /\ calls[i].op \notin MutatingOps
    /\ \/ calls[i].res = "error"
       \/ /\ calls[i].res = "none"
          /\ calls[i].op \in {"search_organization", "search_location"}

\* The lookup of the current record succeeded, so ensure built its data.
FetchOk ==
  /\ Done
  /\ \A i \in DOMAIN calls :
       calls[i].op \in {"search_auth_source_ldap", "get_auth_source_ldap"}
         => calls[i].res # "error"

\* The records of the given name the remote system held before the run.
Existing == {r \in before : r.name = args.attrs["name"]}

StateOf(a) == module_params(a).attrs["state"]

\* The fault and the fail_json signature the last invocation ran under, read
\* back from its calls and its descriptor.
FaultOf(cs) ==
  IF \E i \in DOMAIN cs : cs[i].res = "error"
  THEN LET i == CHOOSE i \in DOMAIN cs : cs[i].res = "error"
       IN  Fault(cs[i].op, IF cs[i].op \in {"search_organization", "search_location"}
                           THEN cs[i].key ELSE "")
  ELSE NoFault

PositionalOf(res) == res.status # "crashed"

Ops(cs) == [i \in DOMAIN cs |-> cs[i].op]

----------------------------------------------------------------------------
\* C1: a run that repeats the arguments of a successful run, nothing else
\* having touched the remote system, issues no create, update or delete,
\* leaves the remote records as they were and, when it returns, reports
\* changed = False.
C1_Idempotent ==
  repeat =>
    /\ Mutations = <<>>
    /\ remote = before
    /\ result.status = "ok" => result.changed = Ret(FALSE, FALSE, {})

\* C1 witness: a repeated run against an existing record, with tls and an
\* organization list supplied, that returned.
C1_Witness ==
  /\ repeat
  /\ result.status = "ok"
  /\ Existing # {}
  /\ ldap = Existing
  /\ StateOf(args) = "present"
  /\ Get(args.attrs, "tls") = "True"
  /\ args.organizations.given /\ args.organizations.names # <<>>

\* The mutating call the decision table names for (record exists, state,
\* comparator result).
TableOps ==
  IF Existing = {}
  THEN IF StateOf(args) = "present" THEN <<"create_auth_source_ldap">> ELSE <<>>
  ELSE IF StateOf(args) = "absent" THEN <<"delete_auth_source_ldap">>
  ELSE IF ~ ldaps_equal(data, CHOOSE r \in Existing : TRUE, cmp_keys)
       THEN <<"update_auth_source_ldap">>
       ELSE <<>>

\* C2: once the lookups have succeeded, the mutating calls issued are those
\* of the decision table: create iff no record and present; delete by the
\* record's identifier iff a record and absent; update by the record's
\* identifier iff a record, present and not equal; none otherwise.  A run
\* that a lookup ended issues none.
C2_DecisionTable ==
  Done =>
    IF LookupFailed THEN Mutations = <<>>
    ELSE /\ Ops(Mutations) = TableOps
         /\ \A i \in DOMAIN Mutations :
              /\ Mutations[i].op = "create_auth_source_ldap"
                   => Mutations[i].data = {data}
              /\ Mutations[i].op = "delete_auth_source_ldap"
                   => \E r \in Existing : Mutations[i].id = r.id
              /\ Mutations[i].op = "update_auth_source_ldap"
                   => /\ \E r \in Existing : Mutations[i].id = r.id
                      /\ Mutations[i].data = {data}

\* C2 witness: a record exists, state is present, the comparator finds a
\* difference and the update is issued.
C2_Witness ==
  /\ Done
  /\ Existing # {}
  /\ StateOf(args) = "present"
  /\ Ops(Mutations) = <<"update_auth_source_ldap">>
  /\ result.status = "ok"

\* C3: an invocation issues at most one mutating call, and a mutating call
\* that failed is the last call of the invocation.
C3_AtMostOneMutation ==
  /\ Len(Mutations) <= 1
  /\ \A i \in DOMAIN calls :
       (IsMutating(calls[i]) /\ calls[i].res = "error") => i = Len(calls)

\* C3 witness: a delete was issued and raised a remote error.
C3_Witness ==
  /\ Done
  /\ Len(Mutations) = 1
  /\ Mutations[1].op = "delete_auth_source_ldap"
  /\ Mutations[1].res = "error"

\* C4 as stated: on a successful invocation `changed` is a boolean, true
\* exactly when a mutating call was issued and succeeded.
C4_ChangedIsBoolean ==
  result.status = "ok" =>
    /\ result.changed.tuple = FALSE
    /\ result.changed.flag <=> (\E i \in DOMAIN Mutations : Mutations[i].res = "ok")

\* C5 as stated: after the lookup, the working attribute set holds a field
\* exactly when the caller supplied it.
C5_SuppliedFieldsOnly ==
  FetchOk =>
    \A i \in DOMAIN keys :
      keys[i] \in DOMAIN data.attrs <=> keys[i] \in DOMAIN args.attrs

\* The names of a list argument that resolve to no entity.
Unresolvable(list, known) == {n \in Range(list.names) : n \notin known}

\* C6: a lookup of an organization or location that finds nothing is the last
\* remote call of the invocation, which fails with the message naming the
\* kind and the name; no mutating call is issued and the remote records stay.
\* An invocation whose lists hold an unresolvable name never succeeds and
\* never mutates.
C6_NotFoundFailsFast ==
  /\ \A i \in DOMAIN calls :
       (calls[i].op \in {"search_organization", "search_location"}
          /\ calls[i].res = "none") =>
         /\ i = Len(calls)
         /\ result.status = "failed"
         /\ result.msg =
              Msg(IF calls[i].op = "search_organization"
                  THEN "Could not find Organization {0}"
                  ELSE "Could not find Location {0}", <<calls[i].key>>)
         /\ Mutations = <<>>
         /\ remote = before
  /\ (Done /\ (Unresolvable(args.organizations, DOMAIN Organizations) # {}
               \/ Unresolvable(args.locations, DOMAIN Locations) # {})) =>
       /\ result.status # "ok"
       /\ Mutations = <<>>
       /\ remote = before

\* C6 witness: the second organization of the list is not found, after the
\* first one resolved, with state present and no record (a create was due).
C6_Witness ==
  /\ Done
  /\ Existing = {}
  /\ StateOf(args) = "present"
  /\ Len(calls) = 3
  /\ calls[2].op = "search_organization" /\ calls[2].res = "ok"
  /\ calls[3].op = "search_organization" /\ calls[3].res = "none"

\* The attempted action or entity kind a failure message names, per format
\* string of the source.
MsgNames(fmt) ==
  IF fmt = "Could not get ldap: {0}" THEN {"get", "ldap"}
  ELSE IF fmt = "Could not create ldap: {0}" THEN {"create", "ldap"}
  ELSE IF fmt = "Could not delete ldap: {0}" THEN {"delete", "ldap"}
  ELSE IF fmt = "Could not update hostgroup: {0}" THEN {"update", "hostgroup"}
  ELSE IF fmt = "Search for Organization '{loc}' throws an Error: {err}"
       THEN {"search", "organization"}
  ELSE IF fmt = "Search for Location '{loc}' throws an Error: {err}"
       THEN {"search", "location"}
  ELSE {}

OpNames(op) ==
  IF op \in {"search_auth_source_ldap", "get_auth_source_ldap"} THEN {"get", "ldap"}
  ELSE IF op = "create_auth_source_ldap" THEN {"create"}
  ELSE IF op = "update_auth_source_ldap" THEN {"update"}
  ELSE IF op = "delete_auth_source_ldap" THEN {"delete"}
  ELSE IF op = "search_organization" THEN {"organization"}
  ELSE IF op = "search_location" THEN {"location"}
  ELSE {}

\* C7 as stated: a remote call that raised an error is the last call of the
\* invocation, which ends as a failure descriptor carrying the remote message
\* and naming the attempted action or the entity kind.
C7_RemoteErrorReported ==
  \A i \in DOMAIN calls :
    calls[i].res = "error" =>
      /\ i = Len(calls)
      /\ result.status = "failed"
      /\ ErrMsg \in Range(result.msg.args)
      /\ MsgNames(result.msg.fmt) \cap OpNames(calls[i].op) # {}

\* The arguments with account_password replaced (or removed).
WithPassword(a, pw) ==
  [a EXCEPT !.attrs =
     [k \in (DOMAIN a.attrs \ {"account_password"}) \cup DOMAIN pw |->
        IF k \in DOMAIN pw THEN pw[k] ELSE a.attrs[k]]]

\* C8: the run with any other account_password (or none), against the same
\* remote records and under the same fault, issues the same remote
\* operations with the same identifiers and outcomes and ends with the same
\* descriptor; and only a create or update call carries the password.
C8_PasswordIrrelevant ==
  Done =>
    /\ \A pw \in Optional("account_password", {"pw1", "pw2", ""}) :
         LET alt == main(WithPassword(args, pw), before, FaultOf(calls),
                         PositionalOf(result))
         IN  /\ Ops(alt.calls) = Ops(calls)
             /\ \A i \in DOMAIN calls :
                  /\ alt.calls[i].id = calls[i].id
                  /\ alt.calls[i].res = calls[i].res
             /\ alt.result = result
    /\ \A i \in DOMAIN calls :
         (\E d \in calls[i].data : "account_password" \in DOMAIN d.attrs)
           => calls[i].op \in {"create_auth_source_ldap", "update_auth_source_ldap"}

\* C8 witness: a password is supplied, the record exists and equals the
\* arguments otherwise, and no call is issued beyond the lookup.
C8_Witness ==
  /\ Done
  /\ "account_password" \in DOMAIN args.attrs
  /\ Existing # {}
  /\ StateOf(args) = "present"
  /\ result.status = "ok"
  /\ Mutations = <<>>

\* The frame of one association list (organizations or locations): `list`
\* is the argument, `key` the identifier key, `op` its lookup.
AssociationFrame(list, key, op) ==
  /\ (list = Given(<<>>) /\ ~ LookupFailed) =>
       /\ key \in DOMAIN data.ids /\ data.ids[key] = <<>>
       /\ \A i \in DOMAIN Mutations :
            Mutations[i].op # "delete_auth_source_ldap" =>
              /\ \A d \in Mutations[i].data :
                   key \in DOMAIN d.ids /\ d.ids[key] = <<>>
              /\ Mutations[i].res = "ok" =>
                   \A r \in remote : r.name = args.attrs["name"] => r[key] = <<>>
  /\ ~ list.given =>
       /\ key \notin DOMAIN data.ids
       /\ \A i \in DOMAIN calls :
            /\ calls[i].op # op
            /\ \A d \in calls[i].data : key \notin DOMAIN d.ids
       /\ \A r \in Existing : \A r2 \in remote : r2.id = r.id => r2[key] = r[key]

\* C9: with an explicit empty list the data carries the identifier key with
\* an empty value, a create or update sends it and the record ends with no
\* association; with the field unset the key is absent from the data and
\* from every call, no lookup is made for it, and a record that is still
\* there keeps its associations.
C9_AssociationsFrame ==
  Done =>
    /\ AssociationFrame(args.organizations, "organization_ids",
                        "search_organization")
    /\ AssociationFrame(args.locations, "location_ids",
                        "search_location")

\* C9 witness: organizations is the empty list, the record had an
\* organization, locations is unset while the record has a location, and the
\* update succeeded.
C9_Witness ==
  /\ Done
  /\ args.organizations = Given(<<>>)
  /\ ~ args.locations.given
  /\ \E r \in Existing : r.organization_ids # <<>> /\ r.location_ids # <<>>
  /\ Ops(Mutations) = <<"update_auth_source_ldap">>
  /\ result.status = "ok"

\* C10: the remote system never holds two records of one name, and a create
\* is issued only when no record of the name was there.
C10_UniqueName ==
  /\ \A r1, r2 \in remote : r1.name = r2.name => r1 = r2
  /\ \A i \in DOMAIN calls :
       calls[i].op = "create_auth_source_ldap" => Existing = {}

\* C10 witness: a create succeeded and the record of that name is there,
\* beside the record of the other name.
C10_Witness ==
  /\ Done
  /\ Ops(Mutations) = <<"create_auth_source_ldap">>
  /\ result.status = "ok"
  /\ Cardinality({r \in remote : r.name = TargetName}) = 1
  /\ OtherRecord \in remote

====
